---- MODULE Spec2Model ----
(***************************************************************************)
(* pipe_cleaner.traversal: the lookahead iteration protocol.               *)
(*                                                                         *)
(* One LookaheadIterable object wrapping a finite single-pass source S.    *)
(* Its fields (iterable, _peeking, peeked, unpeeked) are the state; the    *)
(* generator objects handed out by __iter__() and peek() are kept in gens. *)
(* One step of the model is one call made by the consumer: __iter__(),     *)
(* next() on a generator, peek(), rewind(n) or with_lookahead(obj).        *)
(***************************************************************************)
EXTENDS Integers, Sequences, FiniteSets, TLC

\* ------------------------------------------------------------------ bounds
\* longest source sequence
MaxLen == 3
\* number of generator objects (iterate and peek views) ever handed out
MaxViews == 3

\* most test executions in a log handed to filter_by_outcome
MaxBlocks == 2
\* most "Log line" lines of one test execution
MaxLogLines == 2

\* The elements are opaque objects that the code never inspects or compares; a
\* source of length m is modelled by its elements' identities 1..m, in order.
Source(m) == [i \in 1..m |-> i]
Sources == {Source(m) : m \in 0..MaxLen}
\* arguments tried for rewind(n): negative, zero, up to more than was peeked
RewindArgs == (0 - 1)..MaxLen

\* ------------------------------------------------------------------- state
VARIABLES
    S,          \* the wrapped source, as the sequence it will produce
    iterable,   \* self.iterable: the single cursor over S (elements pulled so far)
    _peeking,   \* self._peeking: None, or the generator made by the open peek()
    peeked,     \* self.peeked
    unpeeked,   \* self.unpeeked
    gens,       \* every generator object handed out, in creation order
    wrappers,   \* number of LookaheadIterable objects constructed
    delivered,  \* history: the values yielded by _iterate generators, in order
    session,    \* history: the latest peek session (see peek and rewind)
    res,        \* history: the call made by the last step and its outcome
    first_yielder, \* history: the _iterate generator that yielded the first value delivered
    drained,    \* history: an _iterate generator has found nothing left and ended
    flt         \* the locals of filter_by_outcome (docstring of with_lookahead)

vars == <<S, iterable, _peeking, peeked, unpeeked, gens, wrappers, delivered, session, res,
          first_yielder, drained, flt>>

\* Python's None (self._peeking = None); generators are numbered from 1
None == 0
\* placeholder in the result record when a call hands back no element
NoVal == None

\* values still to be delivered: unpeeked, then what the source has left
Pending == unpeeked \o SubSeq(S, iterable + 1, Len(S))

\* history of the latest peek session: opened by peek(), closed by rewind(n);
\* fresh: nothing had been pulled when it was opened; failedPeek: a second
\* peek() was refused during it; start: Pending when it was opened; seen: the
\* values its generator has yielded so far; once closed, k: how many values it
\* yielded, n: the argument of the rewind that closed it
NoSession == [opened |-> FALSE, closed |-> FALSE, fresh |-> FALSE, failedPeek |-> FALSE,
              start |-> <<>>, seen |-> <<>>, k |-> 0, n |-> 0]

\* the call of the last step: which call, on which generator (or object), and
\* how it ended: "ok", "yield", "stop" or the name of the exception raised
Result(op, view, out) == [op |-> op, view |-> view, out |-> out]

\* filter_by_outcome is not running
NoFilter == [pc |-> "idle", outcome |-> "", gen |-> None, log_lines |-> <<>>,
             parsed_outcome |-> <<>>, out |-> <<>>]

\* __init__: iter(iterable), no peek, empty buffers
Init ==
    /\ S \in Sources
    /\ iterable = 0
    /\ _peeking = None
    /\ peeked = <<>>
    /\ unpeeked = <<>>
    /\ gens = <<>>
    /\ wrappers = 1
    /\ delivered = <<>>
    /\ session = NoSession
    /\ res = Result("init", 0, "ok")
    /\ first_yielder = None
    /\ drained = FALSE
    /\ flt = NoFilter

\* ------------------------------------------------------- generator plumbing
\* how many generator objects may be handed out: MaxViews to a consumer that
\* may ask for them without end; filter_by_outcome asks for at most three per
\* block of its log and two more after the last block
ViewCap == IF flt.pc = "idle" THEN MaxViews ELSE 3 * MaxBlocks + 2

Gen(kind) == [kind |-> kind, st |-> "live"]

\* next_iterable with an off-by-one at the end: the last element is never produced
next_iterable_ends_early ==
    IF iterable + 1 < Len(S)
    THEN [exc |-> "none", item |-> S[iterable + 1], iterable |-> iterable + 1]
    ELSE [exc |-> "StopIteration", item |-> NoVal, iterable |-> iterable]

\* next(self.iterable): the next element of the source, or StopIteration
next_iterable ==
    IF iterable < Len(S)
    THEN [exc |-> "none", item |-> S[iterable + 1], iterable |-> iterable + 1]
    ELSE [exc |-> "StopIteration", item |-> NoVal, iterable |-> iterable]

\* pop_or_next with the test turned round: the source is read while it has
\* elements, and unpeeked only after it
pop_or_next_source_first ==
    IF next_iterable.exc = "none" \/ unpeeked = <<>>
    THEN [exc |-> next_iterable.exc, item |-> next_iterable.item, unpeeked |-> unpeeked,
          iterable |-> next_iterable.iterable]
    ELSE [exc |-> "none", item |-> Head(unpeeked), unpeeked |-> Tail(unpeeked),
          iterable |-> iterable]

\* self.unpeeked.pop(0) if self.unpeeked else next(self.iterable)
pop_or_next ==
    IF unpeeked # <<>>
    THEN [exc |-> "none", item |-> Head(unpeeked), unpeeked |-> Tail(unpeeked),
          iterable |-> iterable]
    ELSE [exc |-> next_iterable.exc, item |-> next_iterable.item, unpeeked |-> unpeeked,
          iterable |-> next_iterable.iterable]

\* stop_iteration_handler that catches nothing
stop_iteration_handler_passes(exc) == exc

\* with stop_iteration_handler(): StopIteration raised in the block is caught and
\* the block is left normally; any other exception passes through
stop_iteration_handler(exc) ==
    IF exc = "StopIteration" THEN "none" ELSE exc

\* What the consumer's next() gets when a generator body stops looping, given
\* the exception (if any) that leaves its with-block: falling off the end is the
\* end of the sequence; a LookaheadError reaches the consumer; a StopIteration
\* leaving a generator body reaches the consumer as RuntimeError. In every case
\* the generator is finished.
GenEnd(exc) ==
    IF exc = "none" THEN "stop"
    ELSE IF exc = "LookaheadError" THEN "LookaheadError"
    ELSE "RuntimeError"

\* ------------------------------------------------------------------ actions
\* __iter__ that starts over: the new generator rewinds the cursor to the start
__iter__restarts ==
    /\ Len(gens) < ViewCap
    /\ gens' = Append(gens, Gen("iterate"))
    /\ iterable' = 0
    /\ res' = Result("__iter__", Len(gens) + 1, "ok")
    /\ UNCHANGED <<first_yielder, drained, S, _peeking, peeked, unpeeked, wrappers, delivered, session>>

\* __iter__(): a new _iterate generator; nothing runs until it is pulled
__iter__ ==
    /\ Len(gens) < ViewCap
    /\ gens' = Append(gens, Gen("iterate"))
    /\ res' = Result("__iter__", Len(gens) + 1, "ok")
    /\ UNCHANGED <<first_yielder, drained, S, iterable, _peeking, peeked, unpeeked, wrappers, delivered, session>>

\* iterate_turn with the fetch made before the check for an open peek
iterate_turn_fetches_first ==
    IF _peeking # None
    THEN [pop_or_next EXCEPT !.exc = "LookaheadError", !.item = NoVal]
    ELSE pop_or_next

\* one turn of the loop of _iterate: the check for an open peek, then the fetch
iterate_turn ==
    IF _peeking # None
    THEN [exc |-> "LookaheadError", item |-> NoVal, unpeeked |-> unpeeked,
          iterable |-> iterable]
    ELSE pop_or_next

\* _iterate whose generator can be pulled again after it raised LookaheadError
_iterate_survives_error(v) ==
    /\ v \in DOMAIN gens
    /\ gens[v].kind = "iterate"
    /\ IF gens[v].st # "live"
       THEN /\ res' = Result("_iterate", v, "stop")
            /\ UNCHANGED <<iterable, unpeeked, gens, delivered, first_yielder, drained>>
       ELSE LET t == iterate_turn
            IN  /\ unpeeked' = t.unpeeked
                /\ iterable' = t.iterable
                /\ IF t.exc = "none"
                   THEN /\ delivered' = Append(delivered, t.item)
                        /\ first_yielder' = IF first_yielder = None THEN v ELSE first_yielder
                        /\ res' = Result("_iterate", v, "yield")
                        /\ UNCHANGED <<gens, drained>>
                   ELSE /\ gens' = IF t.exc = "LookaheadError" THEN gens
                                   ELSE [gens EXCEPT ![v].st = "done"]
                        /\ drained' = (drained \/ t.exc = "StopIteration")
                        /\ res' = Result("_iterate", v, GenEnd(stop_iteration_handler(t.exc)))
                        /\ UNCHANGED <<delivered, first_yielder>>
    /\ UNCHANGED <<S, _peeking, peeked, wrappers, session>>

\* next() on the _iterate generator v
_iterate(v) ==
    /\ v \in DOMAIN gens
    /\ gens[v].kind = "iterate"
    /\ IF gens[v].st # "live"
       THEN \* a finished generator: StopIteration to the consumer, nothing runs
            /\ res' = Result("_iterate", v, "stop")
            /\ UNCHANGED <<iterable, unpeeked, gens, delivered, first_yielder, drained>>
       ELSE LET t == iterate_turn
            IN  /\ unpeeked' = t.unpeeked
                /\ iterable' = t.iterable
                /\ IF t.exc = "none"
                   THEN /\ delivered' = Append(delivered, t.item)
                        /\ first_yielder' = IF first_yielder = None THEN v ELSE first_yielder
                        /\ res' = Result("_iterate", v, "yield")
                        /\ UNCHANGED <<gens, drained>>
                   ELSE /\ gens' = [gens EXCEPT ![v].st = "done"]
                        /\ drained' = (drained \/ t.exc = "StopIteration")
                        /\ res' = Result("_iterate", v, GenEnd(stop_iteration_handler(t.exc)))
                        /\ UNCHANGED <<delivered, first_yielder>>
    /\ UNCHANGED <<S, _peeking, peeked, wrappers, session>>

\* peek without its guard: a second peek() replaces the open peek generator
peek_unguarded ==
    /\ Len(gens) < ViewCap
    /\ gens' = Append(gens, Gen("peek"))
    /\ _peeking' = Len(gens) + 1
    /\ res' = Result("peek", Len(gens) + 1, "ok")
    /\ session' = [opened |-> TRUE, closed |-> FALSE,
                   fresh |-> (iterable = 0 /\ unpeeked = <<>> /\ peeked = <<>>
                              /\ delivered = <<>>),
                   failedPeek |-> FALSE, start |-> Pending, seen |-> <<>>, k |-> 0, n |-> 0]
    /\ UNCHANGED <<first_yielder, drained, S, iterable, peeked, unpeeked, wrappers, delivered>>

\* peek(): refuse while a peek is open, else hand out a new _peek generator
peek ==
    IF _peeking # None
    THEN /\ res' = Result("peek", 0, "LookaheadError")
         /\ session' = [session EXCEPT !.failedPeek = TRUE]
         /\ UNCHANGED <<first_yielder, drained, S, iterable, _peeking, peeked, unpeeked, gens, wrappers, delivered>>
    ELSE /\ Len(gens) < ViewCap
         /\ gens' = Append(gens, Gen("peek"))
         /\ _peeking' = Len(gens) + 1
         /\ res' = Result("peek", Len(gens) + 1, "ok")
         /\ session' = [opened |-> TRUE, closed |-> FALSE,
                        fresh |-> (iterable = 0 /\ unpeeked = <<>> /\ peeked = <<>>
                                   /\ delivered = <<>>),
                        failedPeek |-> FALSE, start |-> Pending, seen |-> <<>>, k |-> 0, n |-> 0]
         /\ UNCHANGED <<first_yielder, drained, S, iterable, peeked, unpeeked, wrappers, delivered>>

\* _peek ending the peek session when it runs out of values
_peek_ends_session(v) ==
    /\ v \in DOMAIN gens
    /\ gens[v].kind = "peek"
    /\ IF gens[v].st # "live"
       THEN /\ res' = Result("_peek", v, "stop")
            /\ UNCHANGED <<iterable, unpeeked, peeked, gens, session, _peeking>>
       ELSE LET t == pop_or_next
            IN  /\ unpeeked' = t.unpeeked
                /\ iterable' = t.iterable
                /\ IF t.exc = "none"
                   THEN /\ peeked' = Append(peeked, t.item)
                        /\ session' = [session EXCEPT !.seen = Append(@, t.item)]
                        /\ res' = Result("_peek", v, "yield")
                        /\ UNCHANGED <<gens, _peeking>>
                   ELSE /\ gens' = [gens EXCEPT ![v].st = "done"]
                        /\ _peeking' = None
                        /\ res' = Result("_peek", v, GenEnd(stop_iteration_handler(t.exc)))
                        /\ UNCHANGED <<peeked, session>>
    /\ UNCHANGED <<first_yielder, drained, S, wrappers, delivered>>

\* next() on the _peek generator v: one turn of its loop
_peek(v) ==
    /\ v \in DOMAIN gens
    /\ gens[v].kind = "peek"
    /\ IF gens[v].st # "live"
       THEN /\ res' = Result("_peek", v, "stop")
            /\ UNCHANGED <<iterable, unpeeked, peeked, gens, session>>
       ELSE LET t == pop_or_next
            IN  /\ unpeeked' = t.unpeeked
                /\ iterable' = t.iterable
                /\ IF t.exc = "none"
                   THEN /\ peeked' = Append(peeked, t.item)
                        /\ session' = [session EXCEPT !.seen = Append(@, t.item)]
                        /\ res' = Result("_peek", v, "yield")
                        /\ UNCHANGED gens
                   ELSE /\ gens' = [gens EXCEPT ![v].st = "done"]
                        /\ res' = Result("_peek", v, GenEnd(stop_iteration_handler(t.exc)))
                        /\ UNCHANGED <<peeked, session>>
    /\ UNCHANGED <<first_yielder, drained, S, _peeking, wrappers, delivered>>

\* LastN written as seq[:n]: the first n elements instead of the last n
LastN_takes_first(seq, n) ==
    SubSeq(seq, 1, IF n >= Len(seq) THEN Len(seq) ELSE n)

\* LastN that gives nothing when asked for more than there is
LastN_strict(seq, n) ==
    IF n > Len(seq) THEN <<>> ELSE SubSeq(seq, Len(seq) - n + 1, Len(seq))

\* self.peeked[-n:] for n > 0: the last n elements, all of them when n > len
LastN(seq, n) ==
    SubSeq(seq, IF n >= Len(seq) THEN 1 ELSE Len(seq) - n + 1, Len(seq))

\* rewound with a single "if n != 0: self.unpeeked = self.peeked[-n:]": for
\* n < 0 the slice peeked[-n:] leaves out the first -n elements
rewound_one_slice(n) ==
    IF n < 0 THEN SubSeq(peeked, 1 - n, Len(peeked))
    ELSE IF n > 0 THEN SubSeq(peeked, IF n >= Len(peeked) THEN 1 ELSE Len(peeked) - n + 1,
                              Len(peeked))
    ELSE unpeeked

\* rewound with rewind(0) emptying unpeeked
rewound_zero_clears(n) ==
    IF n < 0 THEN peeked
    ELSE IF n > 0 THEN LastN(peeked, n)
    ELSE <<>>

\* the value of self.unpeeked after the two ifs of rewind(n)
rewound(n) ==
    IF n < 0 THEN peeked
    ELSE IF n > 0 THEN LastN(peeked, n)
    ELSE unpeeked

\* close that leaves the generator as it is
close_nothing(g) == g

\* generator.close(): a generator that has not finished is finished
close(g) == [g EXCEPT !.st = "done"]

\* rewind with its guard placed after the buffers have been rewritten
rewind_checks_late(n) ==
    IF _peeking = None
    THEN /\ unpeeked' = rewound(n)
         /\ peeked' = <<>>
         /\ res' = Result("rewind", 0, "LookaheadError")
         /\ UNCHANGED <<first_yielder, drained, S, iterable, _peeking, gens, wrappers, delivered, session>>
    ELSE /\ unpeeked' = rewound(n)
         /\ peeked' = <<>>
         /\ gens' = [gens EXCEPT ![_peeking] = close(@)]
         /\ _peeking' = None
         /\ res' = Result("rewind", _peeking, "ok")
         /\ session' = [session EXCEPT !.closed = TRUE, !.start = <<>>, !.seen = <<>>,
                                        !.k = Len(session.seen), !.n = n]
         /\ UNCHANGED <<first_yielder, drained, S, iterable, wrappers, delivered>>

\* rewind without self.peeked.clear()
rewind_keeps_peeked(n) ==
    IF _peeking = None
    THEN /\ res' = Result("rewind", 0, "LookaheadError")
         /\ UNCHANGED <<first_yielder, drained, S, iterable, _peeking, peeked, unpeeked, gens, wrappers, delivered,
                        session>>
    ELSE /\ unpeeked' = rewound(n)
         /\ gens' = [gens EXCEPT ![_peeking] = close(@)]
         /\ _peeking' = None
         /\ res' = Result("rewind", _peeking, "ok")
         /\ session' = [session EXCEPT !.closed = TRUE, !.start = <<>>, !.seen = <<>>,
                                        !.k = Len(session.seen), !.n = n]
         /\ UNCHANGED <<first_yielder, drained, S, iterable, peeked, wrappers, delivered>>

\* rewind(n): refuse without an open peek, else give back and end the peek
rewind(n) ==
    IF _peeking = None
    THEN /\ res' = Result("rewind", 0, "LookaheadError")
         /\ UNCHANGED <<first_yielder, drained, S, iterable, _peeking, peeked, unpeeked, gens, wrappers, delivered,
                        session>>
    ELSE /\ unpeeked' = rewound(n)
         /\ peeked' = <<>>
         /\ gens' = [gens EXCEPT ![_peeking] = close(@)]
         /\ _peeking' = None
         /\ res' = Result("rewind", _peeking, "ok")
         /\ session' = [session EXCEPT !.closed = TRUE, !.start = <<>>, !.seen = <<>>,
                                        !.k = Len(session.seen), !.n = n]
         /\ UNCHANGED <<first_yielder, drained, S, iterable, wrappers, delivered>>

\* the LookaheadIterable object whose fields are the state
Self == [cls |-> "LookaheadIterable", id |-> 1]

\* with_lookahead without the isinstance test: always a new wrapper
with_lookahead_always_wraps(obj) ==
    [cls |-> "LookaheadIterable", id |-> wrappers + 1]

\* with_lookahead(obj): obj itself when it already is a LookaheadIterable,
\* else a newly constructed LookaheadIterable
with_lookahead(obj) ==
    IF obj.cls = "LookaheadIterable"
    THEN obj
    ELSE [cls |-> "LookaheadIterable", id |-> wrappers + 1]

\* a call with_lookahead(Self); constructing a wrapper around Self would run
\* iter(Self), that is Self.__iter__(), in the new object's __init__
call_with_lookahead ==
    /\ LET r == with_lookahead(Self)
       IN  /\ wrappers' = IF r.id > wrappers THEN r.id ELSE wrappers
           /\ gens' = IF r.id > wrappers THEN Append(gens, Gen("iterate")) ELSE gens
           /\ res' = Result("with_lookahead", r.id, "ok")
    /\ UNCHANGED <<first_yielder, drained, S, iterable, _peeking, peeked, unpeeked, delivered, session>>

Views == 1..MaxViews

\* any consumer: every call it can make on the object, in any order;
\* filter_by_outcome is not running
Next ==
    \/ __iter__ /\ UNCHANGED flt
    \/ \E v \in Views : _iterate(v) /\ UNCHANGED flt
    \/ peek /\ UNCHANGED flt
    \/ \E v \in Views : _peek(v) /\ UNCHANGED flt
    \/ \E n \in RewindArgs : rewind(n) /\ UNCHANGED flt
    \/ call_with_lookahead /\ UNCHANGED flt

Spec == Init /\ [][Next]_vars

\* ------------------------------------------------- filter_by_outcome (docstring)
\* A line of the log: at is its place in the log (what tells two equal lines
\* apart), and its text is prefix followed by rest.
Line(prefix, rest) == [prefix |-> prefix, rest |-> rest]

\* one test execution: its name, some log lines, its outcome
Block(n, outcome) ==
    <<Line("Test name:", "test")>> \o [i \in 1..n |-> Line("Log", "line")]
        \o <<Line("Outcome:", outcome)>>

Outcomes == {"FAIL", "PASS"}
Blocks == {Block(n, o) : n \in 0..MaxLogLines, o \in Outcomes}

\* the unnumbered logs of exactly b test executions
RECURSIVE Texts(_)
Texts(b) ==
    IF b = 0 THEN {<<>>}
    ELSE {t \o blk : t \in Texts(b - 1), blk \in Blocks}

Numbered(t) == [i \in DOMAIN t |-> [at |-> i, prefix |-> t[i].prefix, rest |-> t[i].rest]]

\* logs: every log of at most MaxBlocks test executions
Logs == {Numbered(t) : t \in UNION {Texts(b) : b \in 0..MaxBlocks}}

\* pattern = "Outcome:"
pattern == "Outcome:"
\* x.startswith(pattern)
startswith(x, p) == x.prefix = p
\* x.removeprefix(pattern).strip(), for a line that starts with pattern
removeprefix_strip(x, p) == x.rest

\* filter_by_outcome(outcome) has been called on a log and with_lookahead has
\* wrapped the log; nothing has been pulled yet
FilterInit ==
    /\ S \in Logs
    /\ iterable = 0
    /\ _peeking = None
    /\ peeked = <<>>
    /\ unpeeked = <<>>
    /\ gens = <<>>
    /\ wrappers = 1
    /\ delivered = <<>>
    /\ session = NoSession
    /\ res = Result("init", 0, "ok")
    /\ first_yielder = None
    /\ drained = FALSE
    /\ \E o \in Outcomes :
          flt = [pc |-> "log_lines", outcome |-> o, gen |-> None, log_lines |-> <<>>,
                 parsed_outcome |-> <<>>, out |-> <<>>]

\* the statement of filter_by_outcome that runs next is flt.pc; an exception
\* of a call leaves the function ("raised"), a break ends it ("done")
At(pc) == flt.pc = pc
Goto(pc) == [flt EXCEPT !.pc = pc]

\* log_lines = (iterable.peek() | ...: the call of peek()
log_lines_peek ==
    /\ At("log_lines")
    /\ peek
    /\ flt' = IF res'.out = "ok"
              THEN [flt EXCEPT !.pc = "take_while_not", !.gen = res'.view, !.log_lines = <<>>]
              ELSE Goto("raised")

\* ... | take_while(lambda x: not x.startswith(pattern)) | as_list(): one pull
\* of the peek generator. take_while hands on the element while the predicate
\* holds; the first element for which it fails has been pulled too, and ends it.
log_lines_take_while ==
    /\ At("take_while_not")
    /\ _peek(flt.gen)
    /\ flt' = IF res'.out = "yield"
              THEN LET x == peeked'[Len(peeked')]
                   IN  IF ~startswith(x, pattern)
                       THEN [flt EXCEPT !.log_lines = Append(@, x)]
                       ELSE Goto("rewind_1")
              ELSE IF res'.out = "stop" THEN Goto("rewind_1")
              ELSE Goto("raised")

\* rewind_1 with rewind() in place of rewind(1)
rewind_1_all ==
    /\ At("rewind_1")
    /\ rewind(0 - 1)
    /\ flt' = IF res'.out = "ok" THEN Goto("parsed_outcome") ELSE Goto("raised")

\* iterable.rewind(1)
rewind_1 ==
    /\ At("rewind_1")
    /\ rewind(1)
    /\ flt' = IF res'.out = "ok" THEN Goto("parsed_outcome") ELSE Goto("raised")

\* parsed_outcome = (iterable.peek() | ...: the call of peek()
parsed_outcome_peek ==
    /\ At("parsed_outcome")
    /\ peek
    /\ flt' = IF res'.out = "ok"
              THEN [flt EXCEPT !.pc = "take_while", !.gen = res'.view, !.parsed_outcome = <<>>]
              ELSE Goto("raised")

\* ... | take_while(lambda x: x.startswith(pattern)) | map(...) | take(1)
\* | as_list(): one pull of the peek generator. take(1) hands on the first
\* element that reaches it and ends without asking for another.
parsed_outcome_take ==
    /\ At("take_while")
    /\ _peek(flt.gen)
    /\ flt' = IF res'.out = "yield"
              THEN LET x == peeked'[Len(peeked')]
                   IN  IF startswith(x, pattern)
                       THEN [flt EXCEPT !.pc = "if",
                                        !.parsed_outcome = <<removeprefix_strip(x, pattern)>>]
                       ELSE Goto("if")
              ELSE IF res'.out = "stop" THEN Goto("if")
              ELSE Goto("raised")

\* if not (log_lines and parsed_outcome): break
break ==
    /\ At("if")
    /\ flt.log_lines = <<>> \/ flt.parsed_outcome = <<>>
    /\ flt' = Goto("done")
    /\ UNCHANGED <<S, iterable, _peeking, peeked, unpeeked, gens, wrappers, delivered, session,
                   res, first_yielder, drained>>

\* the comparison written against the string: a list never equals a string
outcome_matches_str == flt.parsed_outcome = flt.outcome

\* parsed_outcome == [outcome]
outcome_matches == flt.parsed_outcome = <<flt.outcome>>

\* if parsed_outcome == [outcome]: iterable.rewind()
rewind_all ==
    /\ At("if")
    /\ flt.log_lines # <<>> /\ flt.parsed_outcome # <<>>
    /\ outcome_matches
    /\ rewind(0 - 1)
    /\ flt' = IF res'.out = "ok" THEN Goto("yield_from") ELSE Goto("raised")

\* yield from log_lines | chain_with(iterable | take(1)): the collected lines
\* are emitted, then take's loop calls iter(iterable)
yield_from_log_lines ==
    /\ At("yield_from")
    /\ __iter__
    /\ flt' = [flt EXCEPT !.pc = "take_1", !.gen = res'.view, !.out = @ \o flt.log_lines]

\* ... chain_with(iterable | take(1)): one pull of the _iterate generator; what
\* it yields is emitted; then continue
take_1 ==
    /\ At("take_1")
    /\ _iterate(flt.gen)
    /\ flt' = IF res'.out = "yield"
              THEN [flt EXCEPT !.pc = "log_lines", !.out = Append(@, delivered'[Len(delivered')])]
              ELSE IF res'.out = "stop" THEN Goto("log_lines")
              ELSE Goto("raised")

\* not the outcome looked for: iterable.rewind(0)
rewind_0 ==
    /\ At("if")
    /\ flt.log_lines # <<>> /\ flt.parsed_outcome # <<>>
    /\ ~outcome_matches
    /\ rewind(0)
    /\ flt' = IF res'.out = "ok" THEN Goto("log_lines") ELSE Goto("raised")

\* failed_only = logs | filter_by_outcome(outcome) | as_list(): the function is
\* run to its end
FilterNext ==
    \/ log_lines_peek
    \/ log_lines_take_while
    \/ rewind_1
    \/ parsed_outcome_peek
    \/ parsed_outcome_take
    \/ break
    \/ rewind_all
    \/ yield_from_log_lines
    \/ take_1
    \/ rewind_0

FilterSpec == FilterInit /\ [][FilterNext]_vars

\* ------------------------------------------------------------------ helpers
IterGens == {v \in DOMAIN gens : gens[v].kind = "iterate"}
PeekGens == {v \in DOMAIN gens : gens[v].kind = "peek"}

\* normal iteration has been pulled to its end: the last call was a pull of an
\* _iterate generator that ended, and nothing is left to deliver
Drained ==
    /\ res.op = "_iterate"
    /\ res.out = "stop"
    /\ _peeking = None
    /\ Pending = <<>>

\* the run so far is: fresh wrap, one peek session, closed by a rewind
OneFreshSession ==
    /\ Cardinality(PeekGens) = 1
    /\ session.fresh
    /\ session.closed

\* ------------------------------------------------------------------- claims

\* C1: with no peek ever opened, what normal iteration has delivered is always
\* a prefix of S, in order and each element once, and once an _iterate
\* generator has ended it is exactly S.
C1_IterateDeliversSource ==
    PeekGens = {} =>
        /\ delivered = SubSeq(S, 1, Len(delivered))
        /\ (\E v \in IterGens : gens[v].st = "done") => delivered = S

C1_Witness ==
    /\ Len(S) = MaxLen
    /\ Len(gens) = 1
    /\ gens[1] = [kind |-> "iterate", st |-> "done"]
    /\ res = Result("_iterate", 1, "stop")

\* C2: fresh wrap, peek(), k pulls through the peek generator, rewind(n) with
\* n < 0, then normal iteration to its end: exactly S has been delivered.
C2_RewindAllRestores ==
    (OneFreshSession /\ session.n < 0 /\ Drained) => delivered = S

C2_Witness ==
    /\ OneFreshSession /\ session.n < 0 /\ Drained
    /\ Len(S) = MaxLen
    /\ session.k = 2

\* C3: fresh wrap, peek(), k pulls through the peek generator, rewind(n) with
\* 0 <= n <= k, then normal iteration to its end: exactly S[k-n:] has been
\* delivered, so the first k-n elements are never delivered by iteration.
C3_RewindPartial ==
    (OneFreshSession /\ 0 <= session.n /\ session.n <= session.k /\ Drained)
        => delivered = SubSeq(S, session.k - session.n + 1, Len(S))

C3_Witness ==
    /\ OneFreshSession /\ Drained
    /\ Len(S) = MaxLen
    /\ session.k = 2
    /\ session.n = 1

\* C3, the case n = 0 of the same formula is reached too
C3_WitnessZero ==
    /\ OneFreshSession /\ Drained
    /\ session.k = 2
    /\ session.n = 0

\* the fields of the object, and with them the generators it has handed out
fields == <<iterable, _peeking, peeked, unpeeked>>

\* C4 as claimed: every pull of an _iterate generator made while a peek is open
\* raises LookaheadError and consumes nothing.
C4_EveryPullRaises ==
    [][(res'.op = "_iterate" /\ _peeking # None)
        => (res'.out = "LookaheadError" /\ UNCHANGED <<fields, delivered>>)]_vars

\* C4 as amended: a pull of an _iterate generator made while a peek is open
\* consumes nothing; it raises LookaheadError when the generator has not ended
\* yet (whenever it was created), and is a silent end of sequence when the
\* generator had already ended.
C4_LivePullRaises ==
    [][(res'.op = "_iterate" /\ _peeking # None)
        => /\ UNCHANGED <<fields, delivered>>
           /\ res'.out = IF gens[res'.view].st = "live" THEN "LookaheadError" ELSE "stop"]_vars

\* a generator obtained before peek() was pulled after values had been peeked
C4_Witness ==
    /\ res.op = "_iterate"
    /\ res.out = "LookaheadError"
    /\ _peeking # None
    /\ res.view < _peeking
    /\ peeked # <<>>
    /\ Pending # <<>>

\* C5: peek() while a peek is open raises LookaheadError and changes no field
\* and no generator; afterwards the open peek generator still yields the next
\* value and appends it to peeked, and rewind() still closes the session.
C5_SecondPeekRefused ==
    [][/\ (res'.op = "peek" /\ _peeking # None)
            => (res'.out = "LookaheadError" /\ UNCHANGED <<fields, gens, delivered>>)
       /\ (session.failedPeek /\ ~session.closed)
            => /\ _peeking \in PeekGens
               /\ (res'.op = "_peek" /\ res'.view = _peeking /\ gens[_peeking].st = "live"
                   /\ Pending # <<>>)
                    => (res'.out = "yield" /\ peeked' = Append(peeked, Head(Pending))
                        /\ Pending' = Tail(Pending))
               /\ res'.op = "rewind"
                    => (res'.out = "ok" /\ _peeking' = None /\ peeked' = <<>>)]_vars

\* after a refused peek(), the first session's generator has yielded a value
C5_Witness ==
    /\ session.failedPeek
    /\ ~session.closed
    /\ res = Result("_peek", _peeking, "yield")
    /\ Len(peeked) >= 2

\* after a refused peek(), the first session has been closed by rewind
C5_WitnessRewound ==
    /\ session.failedPeek
    /\ session.closed
    /\ res.op = "rewind"
    /\ session.k >= 1

\* C6: rewind(n) with no peek open raises LookaheadError, for every n, and
\* changes no field and no generator.
C6_RewindWithoutPeek ==
    [][(res'.op = "rewind" /\ _peeking = None)
        => (res'.out = "LookaheadError" /\ UNCHANGED <<fields, gens, delivered>>)]_vars

\* rewind was refused after an earlier rewind had pushed values back
C6_Witness ==
    /\ res = Result("rewind", 0, "LookaheadError")
    /\ session.closed
    /\ unpeeked # <<>>

\* C7 as claimed: a successful rewind(n) with n < 0 leaves the values still to
\* be delivered exactly as they were when the session's peek() was called.
C7_AsIfNeverPeeked ==
    [][(res'.op = "rewind" /\ res'.out = "ok" /\ session'.n < 0)
        => Pending' = session.start]_vars

\* nothing is left to come: the source is exhausted and both buffers are empty
Dry == iterable = Len(S) /\ unpeeked = <<>> /\ peeked = <<>>

Pulls == {"_iterate", "_peek"}

\* C8 as claimed: once the source is exhausted, every further pull through any
\* generator yields no value and raises no error.
C8_ExhaustedSourceIsFinal ==
    [][(iterable = Len(S) /\ res'.op \in Pulls) => res'.out = "stop"]_vars

\* C8 as amended: once the source is exhausted and unpeeked and peeked are both
\* empty, that stays so for ever and no pull through any generator yields a
\* value; the only error a pull can then raise is the LookaheadError of an
\* _iterate pull made while a peek is open. The end of the source itself never
\* reaches the consumer as an error, in any state.
C8_DryIsFinal ==
    [][/\ Dry => /\ Dry'
                 /\ res'.op \in Pulls
                      => \/ res'.out = "stop"
                         \/ /\ res'.out = "LookaheadError"
                            /\ res'.op = "_iterate"
                            /\ _peeking # None
                            /\ gens[res'.view].st = "live"
       /\ res'.out \in {"ok", "yield", "stop", "LookaheadError"}]_vars

\* a pull through a peek generator finds nothing, after everything had been
\* peeked, given back and delivered by normal iteration
C8_Witness ==
    /\ Dry
    /\ Len(delivered) >= 2
    /\ Cardinality(PeekGens) = 2
    /\ res.op = "_peek"
    /\ res.out = "stop"

Increasing(seq) == \A i, j \in DOMAIN seq : i < j => seq[i] < seq[j]

\* C9: an element is its position in the source. The values delivered by
\* normal iteration over the whole run are strictly increasing, and so are the
\* values yielded within one peek session.
C9_OrderPreserved ==
    /\ Increasing(delivered)
    /\ Increasing(session.seen)

\* a second peek session has yielded two values and unpeeked is not used up
\* yet: an earlier session had peeked those values and given them back
C9_Witness ==
    /\ Cardinality(PeekGens) = 2
    /\ ~session.closed
    /\ Len(session.seen) >= 2
    /\ unpeeked # <<>>

\* C9, the iteration half: normal iteration has delivered two values after two
\* peek sessions, the second of which had peeked and given back
C9_WitnessIterate ==
    /\ Cardinality(PeekGens) = 2
    /\ session.closed
    /\ session.k >= 1
    /\ session.n # 0
    /\ Len(delivered) >= 2
    /\ res.op = "_iterate"

\* C10: with_lookahead on the LookaheadIterable returns that same object; no
\* wrapper is constructed and no field and no generator changes.
C10_WrapIsIdentity ==
    [][res'.op = "with_lookahead"
        => (res'.view = Self.id /\ UNCHANGED <<fields, gens, wrappers, delivered>>)]_vars

\* with_lookahead was called during an open peek session that had peeked values
C10_Witness ==
    /\ res.op = "with_lookahead"
    /\ _peeking # None
    /\ peeked # <<>>
    /\ gens[_peeking].st = "live"

\* ------------------------------------------------------- C11: the filter loop
\* the outcome of the test execution that line i of the log belongs to: the
\* rest of the first outcome line at or after i
OutcomeOf(i) ==
    S[CHOOSE j \in i..Len(S) : /\ startswith(S[j], pattern)
                               /\ \A h \in i..(j - 1) : ~startswith(S[h], pattern)].rest

\* the lines of the test executions whose outcome is the one asked for
Expected == SelectSeq(S, LAMBDA x : OutcomeOf(x.at) = flt.outcome)

\* the log of the example: ["a", "X", "b", "Outcome: FAIL"]
ExampleLog == Numbered(Block(2, "FAIL"))

C11_WitnessExample ==
    /\ flt.pc = "done"
    /\ S = ExampleLog
    /\ flt.outcome = "FAIL"
    /\ flt.out = S

\* ------------------------------------------- C12: rewind(1) in the example
\* filter_by_outcome runs on the example log and its first rewind(1) has just
\* returned: it closed generator 1, the peek generator of log_lines
AfterFirstRewind ==
    /\ S = ExampleLog
    /\ flt.pc = "parsed_outcome"
    /\ res = Result("rewind", 1, "ok")

\* C12 as stated: on the example, after the first peek has collected
\* ["a", "X", "b"], rewind(1) restores "b": unpeeked is exactly ["b"].
C12_RewindOneRestoresB ==
    AfterFirstRewind =>
        /\ flt.log_lines = SubSeq(S, 1, 3)
        /\ unpeeked = <<S[3]>>

\* C12, amended: on the example, the first peek collects ["a", "X", "b"] and
\* has pulled "Outcome: FAIL" as well, the element that stopped it; rewind(1)
\* restores that last pulled element: unpeeked is exactly ["Outcome: FAIL"],
\* peeked is empty and the source has nothing left.
C12_RewindOneRestoresOutcome ==
    AfterFirstRewind =>
        /\ flt.log_lines = SubSeq(S, 1, 3)
        /\ unpeeked = <<S[4]>>
        /\ startswith(unpeeked[1], pattern)
        /\ peeked = <<>>
        /\ iterable = Len(S)

C12_Witness ==
    /\ AfterFirstRewind
    /\ session.k = 4
    /\ session.n = 1
    /\ unpeeked = <<S[4]>>

\* --------------------------------------- C13, C14: what rewind does to unpeeked
\* the step is a call of rewind that did not raise
RewindOk == res'.op = "rewind" /\ res'.out = "ok"

\* C13 as stated: whenever rewind runs successfully, unpeeked is empty at that
\* moment, so that its replacement discards nothing.
C13_ReturnedEmptyAtRewind ==
    [][RewindOk => unpeeked = <<>>]_vars

\* the last n elements of seq, at most all of them, written by index
Tail_n(seq, n) ==
    LET m == IF n < Len(seq) THEN n ELSE Len(seq)
    IN  [i \in 1..m |-> seq[Len(seq) - m + i]]

C15_TwoStateMachine ==
    /\ _peeking = None
    /\ [][/\ (_peeking = None /\ _peeking' # None) => (res'.op = "peek" /\ res'.out = "ok")
          /\ (_peeking # None /\ _peeking' # _peeking) =>
                 (res'.op = "rewind" /\ res'.out = "ok" /\ _peeking' = None)
          /\ (res'.op = "rewind" /\ _peeking # None) => (res'.out = "ok" /\ _peeking' = None)
          /\ (res'.op = "peek" /\ _peeking = None) => (res'.out = "ok" /\ _peeking' # None)
          /\ (res'.op = "peek" /\ _peeking # None) => res'.out = "LookaheadError"
          /\ (res'.op \in Pulls \/ res'.out = "LookaheadError") => _peeking' = _peeking
          /\ (/\ _peeking # None
              /\ res'.op = "_iterate"
              /\ gens[res'.view].st = "live") => res'.out = "LookaheadError"]_vars

\* the open peek's generator has run out of values, and a pull of an _iterate
\* generator has just raised LookaheadError all the same
C15_Witness ==
    /\ _peeking # None
    /\ gens[_peeking].st = "done"
    /\ res.op = "_iterate"
    /\ res.out = "LookaheadError"

\* ------------------------------------------- C16: rewind closes the peek view
\* C16: the only peek generator that can still run is the one of the open
\* peek, and peeked is empty whenever no peek is open; a pull through any other
\* peek generator yields nothing and changes none of the fields; peeked grows
\* only by a pull through the generator of the open peek.
C16_OldViewIsClosed ==
    /\ [](/\ \A v \in PeekGens : gens[v].st = "live" => v = _peeking
          /\ _peeking = None => peeked = <<>>)
    /\ [][/\ (res'.op = "_peek" /\ res'.view # _peeking) =>
                 (res'.out = "stop" /\ UNCHANGED fields)
          /\ Len(peeked') > Len(peeked) =>
                 (/\ res'.op = "_peek"
                  /\ _peeking # None
                  /\ res'.view = _peeking)]_vars

\* a second peek is open, values remain, and a pull through the first peek's
\* generator has just yielded nothing
C16_Witness ==
    /\ Cardinality(PeekGens) >= 2
    /\ _peeking # None
    /\ res.op = "_peek"
    /\ res.view # _peeking
    /\ res.out = "stop"
    /\ Pending # <<>>

\* ---------------------------------------------------- C17: one shared cursor
\* C17: asking for another _iterate generator changes neither the cursor nor
\* the buffers; the cursor never goes back; whichever _iterate generator is
\* pulled, what it yields is the first value still pending, which is then no
\* longer pending; so no value is delivered twice and the deliveries of all
\* the generators together are in the order of the source.
C17_SharedCursor ==
    /\ [](Increasing(delivered))
    /\ [][/\ res'.op = "__iter__" => UNCHANGED <<iterable, unpeeked, peeked, _peeking, delivered>>
          /\ iterable' >= iterable
          /\ (res'.op = "_iterate" /\ res'.out = "yield") =>
                 (/\ Pending # <<>>
                  /\ delivered' = Append(delivered, Head(Pending))
                  /\ Pending' = Tail(Pending))]_vars

\* two _iterate generators have both delivered: the first value came through
\* generator 1, and generator 2 has just yielded a later one
C17_Witness ==
    /\ first_yielder = 1
    /\ res = Result("_iterate", 2, "yield")
    /\ Len(delivered) >= 2

\* ------------------------------- C18: an _iterate generator that has raised
\* C18: a pull of an _iterate generator that raises LookaheadError finishes
\* that generator; a finished generator stays finished, and every later pull
\* of it yields nothing and changes neither the fields nor what was delivered,
\* whatever remains pending; a pull of a live _iterate generator with no peek
\* open yields when a value is pending.
C18_RaisedViewIsFinished ==
    [][/\ (res'.op = "_iterate" /\ res'.out = "LookaheadError") =>
              gens'[res'.view].st = "done"
       /\ \A v \in IterGens :
              gens[v].st = "done" =>
                  /\ gens'[v].st = "done"
                  /\ (res'.op = "_iterate" /\ res'.view = v) =>
                         (res'.out = "stop" /\ UNCHANGED <<fields, delivered>>)
       /\ (/\ res'.op = "_iterate"
           /\ gens[res'.view].st = "live"
           /\ _peeking = None
           /\ Pending # <<>>) => res'.out = "yield"]_vars

\* no _iterate generator has ended by finding nothing left, so the finished
\* one pulled last had raised LookaheadError; the peek is closed, values are
\* pending, and its pull has just yielded nothing
C18_Witness ==
    /\ ~drained
    /\ session.closed
    /\ _peeking = None
    /\ Pending # <<>>
    /\ res.op = "_iterate"
    /\ res.out = "stop"

\* ------------------------------------- C19: rewind(n) with n beyond the session
\* C19: while a peek is open, peeked holds exactly the k values its generator
\* has yielded; rewind(n) with n > k does not raise, makes unpeeked those k
\* values, which is what rewind(-1) makes it, and pulls nothing from the source.
C19_RewindBeyondPeeked ==
    /\ [](_peeking # None => peeked = session.seen)
    /\ [][(/\ res'.op = "rewind"
           /\ _peeking # None
           /\ session'.n > Len(peeked)) =>
              (/\ res'.out = "ok"
               /\ unpeeked' = peeked
               /\ Len(unpeeked') = session'.k
               /\ peeked' = <<>>
               /\ iterable' = iterable)]_vars

\* rewind(n) has closed a session that had pulled k values, 1 <= k < n, and
\* unpeeked holds k values
C19_Witness ==
    /\ res.op = "rewind"
    /\ res.out = "ok"
    /\ session.k >= 1
    /\ session.n > session.k
    /\ Len(unpeeked) = session.k

\* ------------------------------------------- C20: exhaustion seen by _iterate
\* C20: once a pull of an _iterate generator with no peek open has found
\* unpeeked and the source empty, unpeeked and peeked are empty and the source
\* is exhausted in every later state, and no pull of any generator yields,
\* whatever calls of peek() and rewind(n) follow.
C20_DrainedIsFinal ==
    /\ [](drained => Dry)
    /\ [][drained => /\ drained'
                     /\ res'.op \in Pulls => res'.out # "yield"]_vars

\* after the exhaustion was found, a peek was opened and closed by rewind(),
\* and a pull of a new _iterate generator has just found nothing again
C20_Witness ==
    /\ drained
    /\ session.closed
    /\ session.n < 0
    /\ \E v \in IterGens : v > 1 /\ res = Result("_iterate", v, "stop")
    /\ \E v \in PeekGens : v > 1

\* by contrast: the open peek's generator has run out of values, so the source
\* is exhausted, and peeked holds values that rewind can give back
C20_WitnessPeek ==
    /\ ~drained
    /\ _peeking # None
    /\ gens[_peeking].st = "done"
    /\ iterable = Len(S)
    /\ peeked # <<>>
====
